---- MODULE Spec2Model ----
(***************************************************************************)
(* Submersible Pump Selector (Pump_Design.py).                             *)
(*                                                                         *)
(* The Streamlit script is modelled as a state machine over the widget    *)
(* values and the outcome of the last press of "Calculate Pump             *)
(* Requirements".  load_pump_data, select_pump and the power rounding are  *)
(* operators used by the handler and are also exercised on their own.      *)
(*                                                                         *)
(* Numbers are carried in fixed point:                                     *)
(*   flow            1/100 LPH        heads, losses   micrometres          *)
(*   power           1/100 HP         velocity        mm/s                 *)
(*   depths, hours   halves (the widgets step by 0.5)                      *)
(* The catalog's numeric cells use the units of the value they are         *)
(* compared with (hp 1/100 HP, qmin/qmax 1/100 LPH, hmin/hmax um).         *)
(***************************************************************************)
EXTENDS Integers, Sequences, FiniteSets, TLC

VARIABLES
    inputs,      \* the widget values (lines 162-180)
    pc,          \* "idle" | "stopped" | "done" | "raised": how the last run of the script ended
    file,        \* Pumps.xlsx as read by the last run
    run,         \* everything the last press of the button computed and rendered
    sel,         \* load_pump_data + select_pump exercised on their own
    rnd          \* the power rounding exercised on its own

vars == <<inputs, pc, file, run, sel, rnd>>

----------------------------------------------------------------------------
(* Bounds of the model *)

MaxFileRows == 1      \* rows of Pumps.xlsx in a run of the whole script
MaxRows     == 2      \* rows of the catalog when select_pump is exercised alone
MaxHp100    == 320    \* largest hp (1/100 HP) when the rounding is exercised alone

----------------------------------------------------------------------------
(* Values *)

NaN == 0 - 1                 \* float('nan'): what errors='coerce' yields; data are >= 0
None == "None"

IsNaN(x) == x = NaN

\* IEEE comparisons: every comparison with NaN is False
Le(a, b) == (~IsNaN(a)) /\ (~IsNaN(b)) /\ a <= b
Gt(a, b) == (~IsNaN(a)) /\ (~IsNaN(b)) /\ a > b
Ge(a, b) == (~IsNaN(a)) /\ (~IsNaN(b)) /\ a >= b
Eq(a, b) == (~IsNaN(a)) /\ (~IsNaN(b)) /\ a = b

Max(a, b) == IF a >= b THEN a ELSE b

\* where a `for x in s: if P(x): return/break` loop leaves, given the elements
\* of s that satisfy P, in order: at the first of them, as <<x>>; <<>> when
\* there is none and the loop runs to its end
FirstMatch(hits) == IF hits = <<>> THEN <<>> ELSE <<Head(hits)>>

----------------------------------------------------------------------------
(* load_pump_data *)

\* header cells of the sheet and what col.strip().lower() makes of them
Normalize ==
    ("Pump" :> "pump") @@ ("Model" :> "model") @@ ("Phase" :> "phase") @@
    (" HP " :> "hp") @@ ("Qmin" :> "qmin") @@ ("Max Flow" :> "max flow") @@
    ("Hmin" :> "hmin") @@ ("Maximum Head (m)" :> "maximum head (m)") @@
    ("Stages" :> "stages")

RawNames == DOMAIN Normalize

column_mapping ==
    [pump  |-> <<"pump", "model", "pump model">>,
     phase |-> <<"phase", "power phase", "type">>,
     hp    |-> <<"hp", "horsepower", "power">>,
     qmin  |-> <<"qmin", "min flow", "minimum flow (lph)">>,
     qmax  |-> <<"qmax", "max flow", "maximum flow (lph)">>,
     hmin  |-> <<"hmin", "min head", "minimum head (m)">>,
     hmax  |-> <<"hmax", "max head", "maximum head (m)">>]

required_columns == <<"pump", "phase", "hp", "qmin", "qmax", "hmin", "hmax">>

\* pump_data.columns after line 73
Columns(header) == {Normalize[h] : h \in header}

\* lines 88-92: for each standard name, the first of its possible names that is
\* a column (<<>> when none is: the name gets no entry in final_columns)
final_columns(columns) ==
    [standard_name \in DOMAIN column_mapping |->
        FirstMatch(SelectSeq(column_mapping[standard_name],
                             LAMBDA possible_name : possible_name \in columns))]

missing_columns(final) == SelectSeq(required_columns, LAMBDA col : final[col] = <<>>)

\* pd.to_numeric(cell, errors='coerce'): a numeric cell keeps its value,
\* anything else (text, a blank) becomes NaN
ToNumeric(cell) == IF cell[1] = "num" THEN cell[2] ELSE NaN

ConvertRow(r) ==
    [pump |-> r.pump, phase |-> r.phase,
     hp   |-> ToNumeric(r.hp),
     qmin |-> ToNumeric(r.qmin), qmax |-> ToNumeric(r.qmax),
     hmin |-> ToNumeric(r.hmin), hmax |-> ToNumeric(r.hmax)]

\* ascending order on one key with NaN last (na_position='last')
KeyLess(a, b) == IF IsNaN(a) THEN FALSE ELSE IF IsNaN(b) THEN TRUE ELSE a < b

\* strict order of sort_values(['hp', 'hmax'])
RowLess(x, y) ==
    \/ KeyLess(x.hp, y.hp)
    \/ x.hp = y.hp /\ KeyLess(x.hmax, y.hmax)

\* insert r after every row that is not greater than it (ties keep file order)
RECURSIVE InsertSorted(_, _)
InsertSorted(r, s) ==
    IF s = <<>> THEN <<r>>
    ELSE IF RowLess(r, Head(s)) THEN <<r>> \o s
    ELSE <<Head(s)>> \o InsertSorted(r, Tail(s))

RECURSIVE sort_values(_)
sort_values(rows) ==
    IF rows = <<>> THEN <<>>
    ELSE InsertSorted(rows[Len(rows)], sort_values(SubSeq(rows, 1, Len(rows) - 1)))

ConvertRows(rows) == [i \in 1..Len(rows) |-> ConvertRow(rows[i])]

\* what load_pump_data returns (None or the frame) and the st.error calls it made
LoadNone(errors) == [none |-> TRUE, frame |-> <<>>, errors |-> errors]
LoadFrame(frame) == [none |-> FALSE, frame |-> frame, errors |-> <<>>]

\* load_pump_data without the test of line 98: the frame is returned whatever
\* columns were found
load_pump_data_unchecked(f) ==
    IF ~f.readable THEN LoadNone(<<"error: Error loading pump database">>)
    ELSE LoadFrame(sort_values(ConvertRows(f.rows)))

load_pump_data(f) ==
    IF ~f.readable THEN LoadNone(<<"error: Error loading pump database">>)
    ELSE IF missing_columns(final_columns(Columns(f.header))) # <<>>
         THEN LoadNone(<<"error: Missing required columns in Excel file",
                         "error: Please ensure your Excel file has columns">>)
    ELSE LoadFrame(sort_values(ConvertRows(f.rows)))

----------------------------------------------------------------------------
(* select_pump *)

FlowInRange(pump, required_flow_lph) ==
    Le(pump.qmin, required_flow_lph) /\ Le(required_flow_lph, pump.qmax)

HeadInRange(pump, required_tdh) ==
    Le(pump.hmin, required_tdh) /\ Le(required_tdh, pump.hmax)

Returned(pump, tag) == [raised |-> "none", pump |-> pump, match_type |-> tag]
Raised(exc) == [raised |-> exc, pump |-> None, match_type |-> None]

\* lines 140-148 with a fallback that gives up: no row in any tier raises
SelectTail_no_fallback(pump_data, required_hp, required_tdh) ==
    LET suitable_pumps == SelectSeq(pump_data, LAMBDA p : Ge(p.hp, required_hp))
        t3 == FirstMatch(SelectSeq(suitable_pumps, LAMBDA p : HeadInRange(p, required_tdh)))
    IN  IF t3 # <<>> THEN Returned(t3[1], "tdh_match")
        ELSE Raised("IndexError")

\* lines 140-148
SelectTail(pump_data, required_hp, required_tdh) ==
    LET suitable_pumps == SelectSeq(pump_data, LAMBDA p : Ge(p.hp, required_hp))
        t3 == FirstMatch(SelectSeq(suitable_pumps, LAMBDA p : HeadInRange(p, required_tdh)))
    IN  IF t3 # <<>> THEN Returned(t3[1], "tdh_match")
        ELSE IF pump_data = <<>> THEN Raised("IndexError")
        ELSE Returned(pump_data[Len(pump_data)], "last_resort")

\* lines 133-138, reached only inside `if not exact_hp_pumps.empty`
HigherHpTier(pump_data, required_hp, required_flow_lph, required_tdh) ==
    LET higher_hp_pumps == SelectSeq(pump_data, LAMBDA p : Gt(p.hp, required_hp))
    IN  FirstMatch(SelectSeq(higher_hp_pumps,
                  LAMBDA p : FlowInRange(p, required_flow_lph) /\ HeadInRange(p, required_tdh)))

\* select_pump trying the higher-HP rows before the rows of the exact HP
select_pump_higher_first(pump_data, required_hp, required_flow_lph, required_tdh) ==
    LET exact_hp_pumps == SelectSeq(pump_data, LAMBDA p : Eq(p.hp, required_hp))
        t1 == FirstMatch(SelectSeq(exact_hp_pumps,
                  LAMBDA p : FlowInRange(p, required_flow_lph) /\ HeadInRange(p, required_tdh)))
        t2 == HigherHpTier(pump_data, required_hp, required_flow_lph, required_tdh)
    IN  IF exact_hp_pumps # <<>> /\ t2 # <<>> THEN Returned(t2[1], "higher_hp_match")
        ELSE IF exact_hp_pumps # <<>> /\ t1 # <<>> THEN Returned(t1[1], "exact_match")
        ELSE SelectTail(pump_data, required_hp, required_tdh)

\* select_pump reading exact_hp_pumps.iloc[0] without the test of line 126
select_pump_unguarded(pump_data, required_hp, required_flow_lph, required_tdh) ==
    LET exact_hp_pumps == SelectSeq(pump_data, LAMBDA p : Eq(p.hp, required_hp))
        t1 == FirstMatch(SelectSeq(exact_hp_pumps,
                  LAMBDA p : FlowInRange(p, required_flow_lph) /\ HeadInRange(p, required_tdh)))
        t2 == HigherHpTier(pump_data, required_hp, required_flow_lph, required_tdh)
    IN  IF exact_hp_pumps = <<>> THEN Raised("IndexError")
        ELSE IF t1 # <<>> THEN Returned(t1[1], "exact_match")
        ELSE IF t2 # <<>> THEN Returned(t2[1], "higher_hp_match")
        ELSE SelectTail(pump_data, required_hp, required_tdh)

select_pump(pump_data, required_hp, required_flow_lph, required_tdh) ==
    LET exact_hp_pumps == SelectSeq(pump_data, LAMBDA p : Eq(p.hp, required_hp))
        t1 == FirstMatch(SelectSeq(exact_hp_pumps,
                  LAMBDA p : FlowInRange(p, required_flow_lph) /\ HeadInRange(p, required_tdh)))
        t2 == HigherHpTier(pump_data, required_hp, required_flow_lph, required_tdh)
    IN  IF exact_hp_pumps # <<>> /\ t1 # <<>> THEN Returned(t1[1], "exact_match")
        ELSE IF exact_hp_pumps # <<>> /\ t2 # <<>> THEN Returned(t2[1], "higher_hp_match")
        ELSE SelectTail(pump_data, required_hp, required_tdh)

----------------------------------------------------------------------------
(* The widgets *)

\* each number_input at its min_value and at its default value; two of the
\* selectbox's diameters; both materials
WidgetValues ==
    [yield_lph           |-> {100, 2000},     \* LPH
     num_taps            |-> {1, 20},
     demand_per_tap      |-> {10, 50},        \* litres
     pumping_hours       |-> {1, 12},         \* half hours: 0.5 h, 6.0 h
     installation_depth  |-> {2, 60},         \* half metres: 1.0 m, 30.0 m
     tank_height         |-> {0, 20},         \* half metres: 0.0 m, 10.0 m
     pumping_line_length |-> {1, 50},         \* m
     pipe_diameter_mm    |-> {32, 50},
     pipe_type           |-> {"PVC", "GI"},
     safety_margin       |-> {0, 15},         \* %
     efficiency          |-> {30, 65},        \* %
     head_per_stage      |-> {1, 5}]          \* m

Widgets == DOMAIN WidgetValues

\* the `value=` of every widget
Defaults ==
    [yield_lph |-> 2000, num_taps |-> 20, demand_per_tap |-> 50, pumping_hours |-> 12,
     installation_depth |-> 60, tank_height |-> 20, pumping_line_length |-> 50,
     pipe_diameter_mm |-> 50, pipe_type |-> "PVC", safety_margin |-> 15,
     efficiency |-> 65, head_per_stage |-> 5]

----------------------------------------------------------------------------
(* Constants of the script *)

\* PIPE_SIZING[d]["Velocity (m/s)"], in mm/s
PIPE_SIZING_velocity ==
    (32 :> 700) @@ (40 :> 900) @@ (50 :> 1000) @@ (63 :> 1100) @@ (75 :> 1200) @@ (90 :> 1300)

\* C_VALUES.get(pipe_type, 140)
C_VALUES(pipe_type) == IF pipe_type = "GI" THEN 120 ELSE 140

\* C ** 1.852
CPow == (140 :> 9433) @@ (120 :> 7090)

\* pipe_diameter_m ** 4.87, in 1e-9
DPow == (32 :> 52) @@ (40 :> 156) @@ (50 :> 461) @@ (63 :> 1422) @@ (75 :> 3323) @@ (90 :> 8075)

\* flow_m3ps ** 1.852, in 1e-12, for the flows (1/100 LPH) the widget values give
FlowPow ==
    (166 :> 2) @@ (833 :> 37) @@ (2000 :> 185) @@ (3333 :> 476) @@ (10000 :> 3645) @@
    (16666 :> 9388) @@ (40000 :> 47505) @@ (200000 :> 935913)

----------------------------------------------------------------------------
(* The hydraulic calculation (lines 185-220) *)

\* num_taps * demand_per_tap / pumping_hours, in 1/100 LPH
FlowLph(demand_liters, pumping_hours) == (demand_liters * 200) \div pumping_hours

\* the test of line 190 written with >=
ExceedsYield_ge(flow_lph, yield_lph) == flow_lph >= yield_lph * 100

\* the test of line 190 (both sides in 1/100 LPH)
ExceedsYield(flow_lph, yield_lph) == flow_lph > yield_lph * 100

\* (10.67 * L * Q**1.852) / (C**1.852 * d**4.87), in um
FrictionLoss(pumping_line_length, flow_lph, C, pipe_diameter_mm) ==
    (((FlowPow[flow_lph] * pumping_line_length * 10) \div CPow[C]) * 1067)
        \div DPow[pipe_diameter_mm]

\* 0.10 * friction_loss
MinorLosses(friction_loss) == friction_loss \div 10

\* 3.1416 * d**2 / 4, in mm2
PipeArea(pipe_diameter_mm) == (31416 * pipe_diameter_mm * pipe_diameter_mm) \div 40000

\* flow_m3ps / pipe_area, in mm/s
Velocity(flow_lph, pipe_area) == (flow_lph * 100) \div (36 * pipe_area)

\* velocity**2 / (2 * 9.81), in um
VelocityHead(velocity) == (velocity * velocity * 100) \div 1962

\* installation_depth + tank_height (half metres), in um
StaticHead(installation_depth, tank_height) == (installation_depth + tank_height) * 500000

TdhWithoutSafety(static_head, total_pipe_loss, velocity_head) ==
    static_head + total_pipe_loss + velocity_head

\* (safety_margin / 100) * tdh_without_safety
SafetyMarginValue(safety_margin, tdh_without_safety) ==
    (tdh_without_safety \div 100) * safety_margin

\* line 212 with the margin taken off
Tdh_minus(tdh_without_safety, safety_margin_value) == tdh_without_safety - safety_margin_value

Tdh(tdh_without_safety, safety_margin_value) == tdh_without_safety + safety_margin_value

\* 3600000 * 745.7 / (1000 * 9.81 * 100), scaled for flow in 1/100 LPH, head in cm, hp in 1/100
HpDivisor == (36 * 7457 * 1000) \div 981

\* (flow_m3ps * tdh * 1000 * 9.81) / (efficiency/100 * 745.7), in 1/100 HP
Hp(flow_lph, tdh, efficiency) == (flow_lph * (tdh \div 10000)) \div (efficiency * HpDivisor)

\* Python's round() of x/100: to the nearest integer, a tie to the even one
PyRound(x100) ==
    LET q == x100 \div 100
        r == x100 % 100
    IN  IF r < 50 THEN q
        ELSE IF r > 50 THEN q + 1
        ELSE IF q % 2 = 0 THEN q ELSE q + 1

\* max(0.5, round(hp + 0.4)), in 1/100 HP
HpRounded(hp) == Max(50, 100 * PyRound(hp + 40))

\* hp * 0.7457, in 1/100 kW
Kw(hp) == (hp * 7457) \div 10000

\* int(tdh / head_per_stage + 0.5)
NumStages(tdh, head_per_stage) ==
    (2 * tdh + head_per_stage * 1000000) \div (2 * head_per_stage * 1000000)

VelocityStatus(velocity, pipe_velocity) ==
    IF velocity <= pipe_velocity THEN "Good" ELSE "High - Consider larger pipe"

\* the names bound by lines 185-187
Basic(inp) ==
    LET demand_liters == inp.num_taps * inp.demand_per_tap
    IN  [demand_liters |-> demand_liters,
         flow_lph |-> FlowLph(demand_liters, inp.pumping_hours)]

\* the names bound by lines 195-220 and 254-258
Computed(inp, flow_lph) ==
    LET C == C_VALUES(inp.pipe_type)
        friction_loss == FrictionLoss(inp.pumping_line_length, flow_lph, C, inp.pipe_diameter_mm)
        minor_losses == MinorLosses(friction_loss)
        total_pipe_loss == friction_loss + minor_losses
        pipe_area == PipeArea(inp.pipe_diameter_mm)
        velocity == Velocity(flow_lph, pipe_area)
        velocity_head == VelocityHead(velocity)
        static_head == StaticHead(inp.installation_depth, inp.tank_height)
        tdh_without_safety == TdhWithoutSafety(static_head, total_pipe_loss, velocity_head)
        safety_margin_value == SafetyMarginValue(inp.safety_margin, tdh_without_safety)
        tdh == Tdh(tdh_without_safety, safety_margin_value)
        hp == Hp(flow_lph, tdh, inp.efficiency)
        pipe_velocity == PIPE_SIZING_velocity[inp.pipe_diameter_mm]
    IN  [friction_loss |-> friction_loss, minor_losses |-> minor_losses,
         total_pipe_loss |-> total_pipe_loss, velocity |-> velocity,
         velocity_head |-> velocity_head, static_head |-> static_head,
         tdh_without_safety |-> tdh_without_safety,
         safety_margin_value |-> safety_margin_value, tdh |-> tdh,
         hp |-> hp, hp_rounded |-> HpRounded(hp), kw |-> Kw(hp),
         num_stages |-> NumStages(tdh, inp.head_per_stage),
         pipe_velocity |-> pipe_velocity,
         velocity_status |-> VelocityStatus(velocity, pipe_velocity)]

----------------------------------------------------------------------------
(* Pumps.xlsx *)

Num(v) == <<"num", v>>
Text == <<"text">>

FullHeader == RawNames

\* two rows of a sheet: 0.5 HP, 0-3000 LPH, 10-60 m and 1 HP, 500-5000 LPH, 20-90 m
SampleRows ==
    {[pump |-> "A", phase |-> "1PH", hp |-> Num(50), qmin |-> Num(0), qmax |-> Num(300000),
      hmin |-> Num(10000000), hmax |-> Num(60000000)],
     [pump |-> "B", phase |-> "3PH", hp |-> Num(100), qmin |-> Num(50000), qmax |-> Num(500000),
      hmin |-> Num(20000000), hmax |-> Num(90000000)]}

SeqsUpTo(S, n) == UNION {[1..k -> S] : k \in 0..n}

Unreadable == [readable |-> FALSE, header |-> {}, rows |-> <<>>]

\* the sheet as it should be, with any rows; and a sheet that lost one column
Files ==
    {Unreadable}
    \cup {[readable |-> TRUE, header |-> FullHeader, rows |-> r] :
            r \in SeqsUpTo(SampleRows, MaxFileRows)}
    \cup {[readable |-> TRUE, header |-> FullHeader \ {h},
           rows |-> <<CHOOSE r \in SampleRows : r.pump = "A">>] : h \in RawNames}

Unread == [readable |-> FALSE, header |-> {"unread"}, rows |-> <<>>]

----------------------------------------------------------------------------
(* The script: a press of "Calculate Pump Requirements" (lines 183-343) *)

NoSelection == Raised("not called")
NoLoad == LoadNone(<<>>)

NoRun ==
    [hyd |-> <<>>, calls |-> <<>>, shown |-> <<>>,
     load |-> NoLoad, selected |-> NoSelection, report |-> <<>>]

\* what lines 223-267 render
ResultsShown(hyd) ==
    <<"Results", "Hydraulic Requirements", "Head Loss Breakdown", "Pump Specifications",
      "Pipe Sizing Evaluation">>
    \o (IF hyd.velocity > hyd.pipe_velocity
        THEN <<"warning: High velocity detected">> ELSE <<>>)

\* the message of lines 296-303
MatchMessage(match_type) ==
    IF match_type = "exact_match" THEN "success: Found pump matching exact HP, flow, and head requirements"
    ELSE IF match_type = "higher_hp_match" THEN "warning: Using higher HP pump"
    ELSE IF match_type = "tdh_match" THEN "warning: Selected pump based on TDH requirements"
    ELSE "error: No suitable pump found - showing highest capacity option"

\* report_data of lines 306-337 (the entries that depend on the selection and the sizing)
ReportData(inp, hyd, pump) ==
    [inputs |-> inp,
     results |-> [tdh |-> hyd.tdh, hp |-> hyd.hp, hp_rounded |-> hyd.hp_rounded,
                  num_stages |-> hyd.num_stages, velocity_status |-> hyd.velocity_status],
     recommendations |-> [pump |-> pump.pump, hp |-> pump.hp,
                          tdh_in_range |-> HeadInRange(pump, hyd.tdh),
                          flow_in_range |-> FlowInRange(pump, hyd.flow_lph)]]

\* lines 275-343: the selection is rendered and the report generated; an
\* exception of select_pump ends the run
AfterSelect(inp, hyd, f, load, shown, s) ==
    IF s.raised # "none"
    THEN [pc |-> "raised", file |-> f,
          run |-> [hyd |-> hyd, calls |-> <<"load_pump_data", "select_pump">>,
                   shown |-> shown \o <<s.raised>>,
                   load |-> load, selected |-> s, report |-> <<>>]]
    ELSE [pc |-> "done", file |-> f,
          run |-> [hyd |-> hyd,
                   calls |-> <<"load_pump_data", "select_pump", "create_pdf_report">>,
                   shown |-> shown \o <<"Recommended Pump", MatchMessage(s.match_type),
                                        "Download PDF Report">>,
                   load |-> load, selected |-> s,
                   report |-> <<ReportData(inp, hyd, s.pump)>>]]

\* lines 270-273: `if pump_data is not None`
AfterLoad(inp, hyd, f, load) ==
    IF load.none
    THEN [pc |-> "done", file |-> f,
          run |-> [hyd |-> hyd, calls |-> <<"load_pump_data">>,
                   shown |-> ResultsShown(hyd) \o load.errors,
                   load |-> load, selected |-> NoSelection, report |-> <<>>]]
    ELSE AfterSelect(inp, hyd, f, load, ResultsShown(hyd),
                     select_pump(load.frame, hyd.hp_rounded, hyd.flow_lph, hyd.tdh))

\* lines 194-343: the handler after the yield check
AfterYieldCheck(inp, hyd, f) == AfterLoad(inp, hyd, f, load_pump_data(f))

\* lines 183-343
Handler(inp, f) ==
    LET basic == Basic(inp)
    IN  IF ExceedsYield(basic.flow_lph, inp.yield_lph)
        THEN [pc |-> "stopped", file |-> Unread,
              run |-> [hyd |-> basic, calls |-> <<>>,
                       shown |-> <<"error: Required flow exceeds borewell yield!">>,
                       load |-> NoLoad, selected |-> NoSelection, report |-> <<>>]]
        ELSE AfterYieldCheck(inp, basic @@ Computed(inp, basic.flow_lph), f)

----------------------------------------------------------------------------
(* Actions *)

Idle == [called |-> FALSE]

Init ==
    /\ inputs = Defaults
    /\ pc = "idle"
    /\ file = Unread
    /\ run = NoRun
    /\ sel = Idle
    /\ rnd = Idle

\* the user changes a widget: the script reruns with the button not pressed,
\* and renders the form alone
SetWidget ==
    \E w \in Widgets : \E v \in WidgetValues[w] :
        /\ v # inputs[w]
        /\ inputs' = [inputs EXCEPT ![w] = v]
        /\ pc' = "idle"
        /\ file' = Unread
        /\ run' = NoRun
        /\ UNCHANGED <<sel, rnd>>

\* the user presses the button: the script reruns with the widget values as
\* they are and Pumps.xlsx as it is on disk at that moment
Calculate ==
    \E f \in Files :
        LET out == Handler(inputs, f)
        IN  /\ pc' = out.pc
            /\ file' = out.file
            /\ run' = out.run
            /\ UNCHANGED <<inputs, sel, rnd>>

Next == SetWidget \/ Calculate

Spec == Init /\ [][Next]_vars

----------------------------------------------------------------------------
(* load_pump_data and select_pump on their own (lines 270-273) *)

\* cells of a sheet: hp 1, 2 or not a number; flow ranges 1-1 and 1-2;
\* head ranges 1-1, 1-2 and 1-(not a number)
SelCells ==
    {[phase |-> "1PH", hp |-> h, qmin |-> Num(1), qmax |-> q, hmin |-> Num(1), hmax |-> m] :
        h \in {Num(1), Num(2), Text}, q \in {Num(1), Num(2)}, m \in {Num(1), Num(2), Text}}

\* the sheets of up to MaxRows rows; a row's model name is its place in the sheet
SelSheets ==
    {[i \in 1..Len(c) |-> [pump |-> i] @@ c[i]] : c \in SeqsUpTo(SelCells, MaxRows)}

SelRequirements == {1, 2}

InitSelect ==
    /\ inputs = Defaults
    /\ pc = "idle"
    /\ file = Unread
    /\ run = NoRun
    /\ rnd = Idle
    /\ \E rows \in SelSheets : \E h \in SelRequirements, q \in SelRequirements, t \in SelRequirements :
         sel = [called |-> FALSE,
                file |-> [readable |-> TRUE, header |-> FullHeader, rows |-> rows],
                required_hp |-> h, required_flow_lph |-> q, required_tdh |-> t,
                pump_data |-> <<>>, result |-> NoSelection]

\* pump_data = load_pump_data(); select_pump(pump_data, ...)
LoadAndSelect ==
    /\ ~sel.called
    /\ LET load == load_pump_data(sel.file)
       IN  sel' = [sel EXCEPT !.called = TRUE,
                              !.pump_data = load.frame,
                              !.result = select_pump(load.frame, sel.required_hp,
                                                     sel.required_flow_lph, sel.required_tdh)]
    /\ UNCHANGED <<inputs, pc, file, run, rnd>>

NextSelect == LoadAndSelect

SpecSelect == InitSelect /\ [][NextSelect]_vars

----------------------------------------------------------------------------
(* The power rounding on its own (line 216) *)

InitRound ==
    /\ inputs = Defaults
    /\ pc = "idle"
    /\ file = Unread
    /\ run = NoRun
    /\ sel = Idle
    /\ \E h \in 0..MaxHp100 : rnd = [called |-> FALSE, hp |-> h, hp_rounded |-> 0]

Round ==
    /\ ~rnd.called
    /\ rnd' = [rnd EXCEPT !.called = TRUE, !.hp_rounded = HpRounded(rnd.hp)]
    /\ UNCHANGED <<inputs, pc, file, run, sel>>

NextRound == Round

SpecRound == InitRound /\ [][NextRound]_vars

----------------------------------------------------------------------------
(* Properties of select_pump, stated on the catalog and the requirement *)

Rows(frame) == {frame[i] : i \in 1..Len(frame)}

\* the tier predicates of the design, on a record p
Tier1(p) == Eq(p.hp, sel.required_hp) /\ FlowInRange(p, sel.required_flow_lph)
                                      /\ HeadInRange(p, sel.required_tdh)
Tier2(p) == Gt(p.hp, sel.required_hp) /\ FlowInRange(p, sel.required_flow_lph)
                                      /\ HeadInRange(p, sel.required_tdh)
Tier3(p) == Ge(p.hp, sel.required_hp) /\ HeadInRange(p, sel.required_tdh)

\* the places of the catalog whose record satisfies a tier
Tier1At == {i \in 1..Len(sel.pump_data) : Tier1(sel.pump_data[i])}
Tier2At == {i \in 1..Len(sel.pump_data) : Tier2(sel.pump_data[i])}
Tier3At == {i \in 1..Len(sel.pump_data) : Tier3(sel.pump_data[i])}

\* the first record of the catalog, in catalog order, among the places S
First(S) == sel.pump_data[CHOOSE i \in S : \A j \in S : i <= j]

ReturnedAs(tag) == sel.result.raised = "none" /\ sel.result.match_type = tag

MatchKinds == {"exact_match", "higher_hp_match", "tdh_match", "last_resort"}

\* C1: on a non-empty catalog select_pump raises nothing and returns one row of
\* the catalog with one of the four tags, whatever the requirement
SelectorTotal ==
    (sel.called /\ sel.pump_data # <<>>) =>
        /\ sel.result.raised = "none"
        /\ sel.result.pump \in Rows(sel.pump_data)
        /\ sel.result.match_type \in MatchKinds

\* a catalog of two rows none of which satisfies a tier: the fallback row is returned
SelectorTotalWitness ==
    /\ sel.called
    /\ Len(sel.pump_data) = 2
    /\ Tier3At = {}
    /\ ReturnedAs("last_resort")

\* C2: when some record satisfies tier 1, the first such record in catalog
\* order is returned, tagged exact_match
TierOrdering ==
    (sel.called /\ Tier1At # {}) =>
        /\ ReturnedAs("exact_match")
        /\ sel.result.pump = First(Tier1At)

\* the first record fails tier 1 but satisfies tier 3, the second satisfies tier 1
TierOrderingWitness ==
    /\ sel.called
    /\ Len(sel.pump_data) = 2
    /\ ~Tier1(sel.pump_data[1]) /\ Tier3(sel.pump_data[1])
    /\ Tier1(sel.pump_data[2])
    /\ ReturnedAs("exact_match")
    /\ sel.result.pump = sel.pump_data[2]

\* C3: when no record satisfies tier 1 and some record satisfies tier 2, the
\* first such record is returned, tagged higher_hp_match
HigherHpTierClaim ==
    (sel.called /\ Tier1At = {} /\ Tier2At # {}) =>
        /\ ReturnedAs("higher_hp_match")
        /\ sel.result.pump = First(Tier2At)

\* C4: select_pump raises exactly when the catalog is empty, and then returns no record
EmptyCatalogFatal ==
    sel.called =>
        /\ (sel.pump_data = <<>>) <=> (sel.result.raised # "none")
        /\ (sel.pump_data = <<>>) => (sel.result.pump = None /\ sel.result.match_type = None)

\* select_pump was called on the empty catalog
EmptyCatalogWitness ==
    /\ sel.called
    /\ sel.pump_data = <<>>
    /\ sel.result.raised = "IndexError"

\* C9: when no record satisfies tier 1 or tier 2 and some record satisfies tier 3,
\* the first such record is returned tagged tdh_match; and tdh_match is returned
\* only when no record satisfies tier 1 or tier 2
HeadOnlyTierClaim ==
    sel.called =>
        /\ (Tier1At = {} /\ Tier2At = {} /\ Tier3At # {}) =>
              (ReturnedAs("tdh_match") /\ sel.result.pump = First(Tier3At))
        /\ ReturnedAs("tdh_match") => (Tier1At = {} /\ Tier2At = {})

\* C10: last_resort is returned exactly when no record satisfies a tier, and the
\* record is then the last of the catalog, whose HP is >= every record's HP and
\* whose hmax is maximal among the records of that HP
FallbackClaim ==
    (sel.called /\ sel.pump_data # <<>>) =>
        /\ ReturnedAs("last_resort") <=> (Tier1At = {} /\ Tier2At = {} /\ Tier3At = {})
        /\ ReturnedAs("last_resort") =>
              /\ sel.result.pump = sel.pump_data[Len(sel.pump_data)]
              /\ \A p \in Rows(sel.pump_data) :
                    /\ Ge(sel.result.pump.hp, p.hp)
                    /\ Eq(p.hp, sel.result.pump.hp) => Ge(sel.result.pump.hmax, p.hmax)

----------------------------------------------------------------------------
(* Properties of the power rounding *)

\* C6: hp_rounded is at least 0.5 and at least hp
PowerRoundingClaim ==
    rnd.called => (rnd.hp_rounded >= 50 /\ rnd.hp_rounded >= rnd.hp)

----------------------------------------------------------------------------
(* Properties of a run of the script *)

Ran == pc # "idle"

Bound(name) == name \in DOMAIN run.hyd

\* flow_lph > yield_lph, on the widget values: taps * demand / hours > yield
DemandExceedsYield ==
    2 * inputs.num_taps * inputs.demand_per_tap > inputs.yield_lph * inputs.pumping_hours

\* C5: a run stops at the yield check exactly when the demand exceeds the yield;
\* a stopped run has computed no loss, head, power or stage count, has called
\* neither load_pump_data nor select_pump and has no report; any other run has
\* computed them
YieldPrecondition ==
    Ran =>
        /\ (pc = "stopped") <=> DemandExceedsYield
        /\ (pc = "stopped") =>
              /\ DOMAIN run.hyd = {"demand_liters", "flow_lph"}
              /\ run.calls = <<>>
              /\ run.selected = NoSelection
              /\ run.report = <<>>
              /\ run.shown = <<"error: Required flow exceeds borewell yield!">>
        /\ (pc # "stopped") =>
              (Bound("friction_loss") /\ Bound("tdh") /\ Bound("hp") /\ Bound("num_stages"))

\* a run stopped at the yield check
YieldPreconditionWitness == pc = "stopped" /\ DemandExceedsYield

\* C7: the TDH a run computes is the sum of static head, friction, minor losses,
\* velocity head and the safety addition, none of them negative, so it is at
\* least installation_depth + tank_height
TdhDecomposition ==
    (Ran /\ ~DemandExceedsYield) =>
        LET h == run.hyd
        IN  /\ h.tdh = h.static_head + (h.friction_loss + h.minor_losses)
                         + h.velocity_head + h.safety_margin_value
            /\ h.static_head = (inputs.installation_depth + inputs.tank_height) * 500000
            /\ h.static_head >= 0 /\ h.friction_loss >= 0 /\ h.minor_losses >= 0
            /\ h.velocity_head >= 0 /\ h.safety_margin_value >= 0
            /\ h.tdh >= h.static_head

\* a run with demand equal to the yield, in which every term is positive
TdhDecompositionWitness ==
    /\ Ran /\ Bound("tdh")
    /\ 2 * inputs.num_taps * inputs.demand_per_tap = inputs.yield_lph * inputs.pumping_hours
    /\ run.hyd.friction_loss > 0 /\ run.hyd.minor_losses > 0
    /\ run.hyd.velocity_head > 0 /\ run.hyd.safety_margin_value > 0
    /\ run.hyd.tdh > run.hyd.static_head

\* the catalog of the run could not be loaded: the sheet could not be read, or
\* a required column has none of its possible names in the header
CannotLoad ==
    \/ ~file.readable
    \/ \E col \in DOMAIN column_mapping :
          \A i \in 1..Len(column_mapping[col]) :
              \A h \in file.header : Normalize[h] # column_mapping[col][i]

ReachedLoad == pc \in {"done", "raised"}

NoSelectionNoReport ==
    /\ run.load.none
    /\ run.calls = <<"load_pump_data">>
    /\ run.selected = NoSelection
    /\ run.report = <<>>

\* C8 as stated: when the catalog cannot be loaded there is no catalog, no
\* selection, no report, and nothing of the run's results is shown
CatalogLoadFailureClaim ==
    (ReachedLoad /\ CannotLoad) =>
        /\ NoSelectionNoReport
        /\ \A i \in 1..Len(run.shown) : run.shown[i] \in Rows(run.load.errors)

\* C8 amended: when the catalog cannot be loaded there is no catalog, no
\* selection and no report; the page shows the hydraulic results and the pipe
\* sizing evaluation rendered before the load, followed by the load's errors
\* and nothing else
CatalogLoadFailure ==
    (ReachedLoad /\ CannotLoad) =>
        /\ NoSelectionNoReport
        /\ pc = "done"
        /\ run.load.errors # <<>>
        /\ run.shown = ResultsShown(run.hyd) \o run.load.errors
        /\ Bound("tdh") /\ Bound("hp_rounded")

\* a run on a sheet without its hp column
CatalogLoadFailureWitness ==
    /\ ReachedLoad
    /\ file.readable
    /\ \A h \in file.header : Normalize[h] # "hp"
    /\ run.load.none
    /\ Len(run.shown) > Len(run.load.errors)

====
